---- MODULE Spec2Model ----
(***************************************************************************)
(* thanos-rs: optimise_region_files (src/src/main.rs).                     *)
(*                                                                         *)
(* A region directory is a map from file names to files.  A file is a     *)
(* length plus its bytes; bytes are kept sparsely (only the non-zero      *)
(* ones), which is what a file with holes reads back as.  Every directory *)
(* entry is handled by one closure of the parallel for_each; the closure  *)
(* is split at the points where it touches the file system.               *)
(***************************************************************************)
EXTENDS Integers, Sequences, FiniteSets, TLC

SECTOR_SIZE == 4096

\* for x in 0..32 / for z in 0..32
GRID == 32

\* Bounds of the model: chunks per generated region file, directory entries.
MaxChunks == 3
MaxFiles == 2

-----------------------------------------------------------------------------
(* Integers and bytes *)

RECURSIVE Shr8(_, _)
\* v >> (8*k)
Shr8(v, k) == IF k = 0 THEN v ELSE Shr8(v \div 256, k - 1)

RECURSIVE BitOr(_, _)
BitOr(a, b) ==
    IF a = 0 THEN b
    ELSE IF b = 0 THEN a
    ELSE ((a % 2) + (b % 2) - (a % 2) * (b % 2)) + 2 * BitOr(a \div 2, b \div 2)

\* A byte vector (Vec<u8>, [u8; N]) is its length and its non-zero bytes, by
\* index from 1: the bytes left out are zero.
Bytes(s) == [len |-> Len(s), nz |-> [i \in {j \in 1..Len(s) : s[j] # 0} |-> s[i]]]

At(v, i) == IF i \in DOMAIN v.nz THEN v.nz[i] ELSE 0

Concat(a, b) ==
    [len |-> a.len + b.len,
     nz |-> [i \in DOMAIN a.nz \cup {j + a.len : j \in DOMAIN b.nz} |->
                IF i <= a.len THEN a.nz[i] ELSE b.nz[i - a.len]]]

\* i32::from_be_bytes
FromBeBytesI32(b) ==
    (IF At(b, 1) >= 128 THEN At(b, 1) - 256 ELSE At(b, 1)) * 16777216
        + At(b, 2) * 65536 + At(b, 3) * 256 + At(b, 4)

\* i32::to_be_bytes: 4 bytes
ToBeBytesI32(v) == Bytes([i \in 1..4 |-> Shr8(v, 4 - i) % 256])

\* u64::to_be_bytes: 8 bytes
ToBeBytesU64(v) == Bytes([i \in 1..8 |-> Shr8(v, 8 - i) % 256])

-----------------------------------------------------------------------------
(* Files *)

NoFile == [exists |-> FALSE, len |-> 0, bytes |-> <<>>]

\* File::create: a new, empty file (an existing one is truncated)
CreateFile == [exists |-> TRUE, len |-> 0, bytes |-> <<>>]

ByteAt(file, pos) == IF pos \in DOMAIN file.bytes THEN file.bytes[pos] ELSE 0

\* read_exact succeeds only if all n bytes are there
CanReadExact(file, pos, n) == pos >= 0 /\ n >= 0 /\ pos + n <= file.len

ReadExact(file, pos, n) ==
    [len |-> n,
     nz |-> [i \in {p - pos + 1 : p \in {q \in DOMAIN file.bytes : q >= pos /\ q < pos + n}}
                |-> file.bytes[i + pos - 1]]]

\* seek(pos) then write_all(data): a write past the end leaves a hole of zeros
WriteAll(file, pos, data) ==
    LET kept == {p \in DOMAIN file.bytes : p < pos \/ p >= pos + data.len}
        new == {i + pos - 1 : i \in DOMAIN data.nz}
    IN  [exists |-> TRUE,
         len |-> IF pos + data.len > file.len THEN pos + data.len ELSE file.len,
         bytes |-> [p \in kept \cup new |->
                       IF p \in new THEN data.nz[p - pos + 1] ELSE file.bytes[p]]]

\* File::set_len: truncates or extends with zeros
SetLenFile(file, n) ==
    [exists |-> TRUE, len |-> n,
     bytes |-> [p \in {q \in DOMAIN file.bytes : q < n} |-> file.bytes[p]]]

-----------------------------------------------------------------------------
(* File names.  A name is held as the parts file_name.split('.') yields. *)

\* file_name.ends_with(".mca")
EndsWithMca(parts) == Len(parts) >= 2 /\ parts[Len(parts)] = "mca"

\* the decimal texts the model's names use, with their values
I32Text == ("0" :> 0) @@ ("1" :> 1) @@ ("2" :> 2) @@ ("3" :> 3) @@ ("-1" :> -1)

\* str::parse::<i32>()
ParseI32(s) ==
    IF s \in DOMAIN I32Text THEN [ok |-> TRUE, value |-> I32Text[s]]
    ELSE [ok |-> FALSE, value |-> 0]

\* The closure's filter on the file name: "skip" returns early, "panic" is the
\* unwrap of a failed parse, "region" goes on to open the file.
ClassifyName(parts) ==
    IF ~EndsWithMca(parts) THEN "skip"
    ELSE IF Len(parts) # 4 THEN "skip"
    ELSE IF ~ParseI32(parts[2]).ok \/ ~ParseI32(parts[3]).ok THEN "panic"
    ELSE "region"

-----------------------------------------------------------------------------
(* The external decoders, reduced to what the scan uses of them: whether the
   stream decodes, whether the payload holds the field, and the field's value.
   A stream is its magic byte, the payload, padding and a trailer byte. *)

\* first byte of a gzip (0x1f) resp. zlib (0x78) stream
StreamMagic(compression_type) == IF compression_type = 1 THEN 31 ELSE 120

\* GzDecoder / ZlibDecoder read_to_end
Decompress(compression_type, data) ==
    IF data.len >= 4 /\ At(data, 1) = StreamMagic(compression_type)
                     /\ At(data, data.len) = 255
    THEN [ok |-> TRUE, bytes |-> Bytes(<<At(data, 2), At(data, 3)>>)]
    ELSE [ok |-> FALSE, bytes |-> Bytes(<<>>)]

\* simdnbt::borrow::read(..).expect(..).unwrap().long("InhabitedTime"):
\* a payload that is no compound (tag 10) makes one of the unwraps panic
NbtLong(payload) ==
    IF At(payload, 1) = 10 THEN [ok |-> TRUE, value |-> At(payload, 2)]
    ELSE [ok |-> FALSE, value |-> 0]

\* Include with the comparison off by one: >= for >
IncludeAtOrAbove(inhabited_time, threshold) == inhabited_time >= threshold

\* inhabited_time > inhabited_time_threshold
Include(inhabited_time, threshold) == inhabited_time > threshold

-----------------------------------------------------------------------------
(* Scan *)

\* SlotIndex with the loops swapped: z outer, x inner
SlotIndexZOuter(k) ==
    LET x == k % GRID
        z == k \div GRID
    IN  (x % 32) + (z % 32) * 32

\* the slot the k-th iteration of the x/z loops looks at
SlotIndex(k) ==
    LET x == k \div GRID
        z == k % GRID
    IN  (x % 32) + (z % 32) * 32

\* i32::from_be_bytes of location_table[index * 4 .. index * 4 + 3]
LocAt(location_table, index) ==
    FromBeBytesI32(Bytes([i \in 1..4 |-> At(location_table, index * 4 + i)]))

\* One iteration of the inner loop. kind: "empty" and "skip" are the
\* `continue`s, "drop" fails the threshold, "keep" pushes, "panic" unwinds.
ScanSlot(file, location_table, index, threshold) ==
    LET loc == LocAt(location_table, index)
        num_sectors == loc % 256
        sector_offset == loc \div 256
        pos == sector_offset * SECTOR_SIZE
        seekable == sector_offset >= 0 /\ sector_offset <= file.len \div SECTOR_SIZE
        chunk_size == FromBeBytesI32(ReadExact(file, pos, 4))
        compression_type == ByteAt(file, pos + 4)
        data == ReadExact(file, pos + 5, chunk_size - 1)
        stream == Decompress(compression_type, data)
        nbt == NbtLong(stream.bytes)
        none == <<0, 0, Bytes(<<>>)>>
    IN  IF sector_offset = 0 /\ num_sectors = 0 THEN [kind |-> "empty", entry |-> none]
        ELSE IF ~seekable \/ ~CanReadExact(file, pos, 5) THEN [kind |-> "panic", entry |-> none]
        ELSE IF chunk_size < 1 \/ chunk_size - 1 > file.len - (pos + 5)
            THEN [kind |-> "panic", entry |-> none]
        ELSE IF compression_type # 1 /\ compression_type # 2 THEN [kind |-> "skip", entry |-> none]
        ELSE IF ~stream.ok THEN [kind |-> "skip", entry |-> none]
        ELSE IF ~nbt.ok THEN [kind |-> "panic", entry |-> none]
        ELSE IF Include(nbt.value, threshold)
            THEN [kind |-> "keep", entry |-> <<loc, compression_type, data>>]
        ELSE [kind |-> "drop", entry |-> none]

Min(S) == CHOOSE m \in S : \A n \in S : m <= n

RECURSIVE ScanFrom(_, _, _, _, _)
\* The loops over the iterations `todo` that do not `continue` at once.
ScanFrom(file, location_table, todo, threshold, chunk_data) ==
    IF todo = {} THEN [panicked |-> FALSE, chunk_data |-> chunk_data]
    ELSE LET k == Min(todo)
             r == ScanSlot(file, location_table, SlotIndex(k), threshold)
         IN  IF r.kind = "panic" THEN [panicked |-> TRUE, chunk_data |-> chunk_data]
             ELSE ScanFrom(file, location_table, todo \ {k}, threshold,
                           IF r.kind = "keep" THEN Append(chunk_data, r.entry)
                           ELSE chunk_data)

\* lines 122-192: read the location table, visit all GRID*GRID slots. An
\* iteration whose slot holds four zero bytes does nothing but `continue`;
\* the others are the slots with a non-zero byte.
Scan(file, threshold) ==
    LET location_table == ReadExact(file, 0, SECTOR_SIZE)
        nonzero == {(p - 1) \div 4 : p \in DOMAIN location_table.nz}
        occupied == {k \in 0..(GRID * GRID - 1) : SlotIndex(k) \in nonzero}
    IN  ScanFrom(file, location_table, occupied, threshold, <<>>)

-----------------------------------------------------------------------------
(* Repack *)

\* (data.len() as u64 + SECTOR_SIZE - 1) / SECTOR_SIZE
NumSectors(data) == (data.len + SECTOR_SIZE - 1) \div SECTOR_SIZE

\* (offset / SECTOR_SIZE) << 8 | num_sectors, a u64
NewLoc(offset, num_sectors) == BitOr((offset \div SECTOR_SIZE) * 256, num_sectors)

\* (loc & 0xFF) as u64 * 4
LocSeekPos(loc) == (loc % 256) * 4

\* what the location write puts into the file: new_loc.to_be_bytes()
LocBytes(new_loc) == ToBeBytesU64(new_loc)

\* the three write_all calls after seek(offset)
ChunkBytes(compression_type, data) ==
    Concat(Concat(ToBeBytesI32(data.len + 1), Bytes(<<compression_type>>)), data)

\* one iteration of the loop over chunk_data, on the output file
WriteEntry(file, offset, entry) ==
    LET loc == entry[1]
        compression_type == entry[2]
        data == entry[3]
        new_loc == NewLoc(offset, NumSectors(data))
        located == WriteAll(file, LocSeekPos(loc), LocBytes(new_loc))
    IN  WriteAll(located, offset, ChunkBytes(compression_type, data))

\* let mut offset = 2 * SECTOR_SIZE
FirstOffset == 2 * SECTOR_SIZE

\* AdvanceOffset without the scaling to bytes
AdvanceOffsetBySectors(offset, num_sectors) == offset + num_sectors

\* offset += num_sectors * SECTOR_SIZE
AdvanceOffset(offset, num_sectors) == offset + num_sectors * SECTOR_SIZE

-----------------------------------------------------------------------------
(* Input directories *)

RegionA == <<"r", "0", "0", "mca">>
RegionB == <<"r", "-1", "2", "mca">>
NotRegion == <<"foo", "txt">>
FiveParts == <<"r", "1", "2", "3", "mca">>
NonNumeric == <<"r", "a", "b", "mca">>
AllNames == {RegionA, RegionB, NotRegion, FiveParts, NonNumeric}

\* Chunks a generated region file is made of: the slot, the compression tag,
\* the length of the compressed body, whether the stream is sound ("ok"),
\* broken ("corrupt") or decodes to a payload without the field ("nofield"),
\* and the InhabitedTime.
ChunkPool ==
    { [slot |-> 5,  tag |-> 2, len |-> 8,    kind |-> "ok",      age |-> 9],
      [slot |-> 32, tag |-> 1, len |-> 8,    kind |-> "ok",      age |-> 9],
      [slot |-> 33, tag |-> 2, len |-> 4096, kind |-> "ok",      age |-> 9],
      [slot |-> 64, tag |-> 1, len |-> 4092, kind |-> "ok",      age |-> 9],
      [slot |-> 100, tag |-> 2, len |-> 5000, kind |-> "ok",     age |-> 9],
      [slot |-> 2,  tag |-> 2, len |-> 8,    kind |-> "ok",      age |-> 7],
      [slot |-> 3,  tag |-> 1, len |-> 8,    kind |-> "ok",      age |-> 0],
      [slot |-> 40, tag |-> 5, len |-> 8,    kind |-> "ok",      age |-> 9],
      [slot |-> 41, tag |-> 1, len |-> 8,    kind |-> "corrupt", age |-> 9],
      [slot |-> 42, tag |-> 2, len |-> 8,    kind |-> "nofield", age |-> 9] }

Thresholds == {0, 7}

Body(d) ==
    LET byte(i) == IF i = 1 THEN (IF d.kind = "corrupt" THEN 0 ELSE StreamMagic(d.tag))
                   ELSE IF i = 2 THEN (IF d.kind = "nofield" THEN 1 ELSE 10)
                   ELSE IF i = 3 THEN d.age
                   ELSE IF i = d.len THEN 255
                   ELSE 0
    IN  [len |-> d.len, nz |-> [i \in {j \in {1, 2, 3, d.len} : byte(j) # 0} |-> byte(i)]]

RECURSIVE PlaceChunks(_, _, _)
\* chunks laid out in slot order from `sector` on, each with the sectors its
\* 4 + chunk_size bytes need, and the file padded to whole sectors
PlaceChunks(file, chunks, sector) ==
    IF chunks = {} THEN SetLenFile(file, sector * SECTOR_SIZE)
    ELSE LET d == CHOOSE c \in chunks : \A e \in chunks : c.slot <= e.slot
             n == (d.len + 5 + SECTOR_SIZE - 1) \div SECTOR_SIZE
             located == WriteAll(file, d.slot * 4, ToBeBytesI32(sector * 256 + n))
             stored == WriteAll(located, sector * SECTOR_SIZE,
                                ChunkBytes(d.tag, Body(d)))
         IN  PlaceChunks(stored, chunks \ {d}, sector + n)

RegionFile(chunks) == PlaceChunks(CreateFile, chunks, 2)

ZeroLengthFile == CreateFile
ShortFile == SetLenFile(CreateFile, 100)
OtherFile == WriteAll(CreateFile, 0, Bytes(<<104, 105>>))

\* what a region file that is alone in its directory may hold
ContentsAlone ==
    {ZeroLengthFile, ShortFile}
        \cup {RegionFile(c) : c \in {s \in SUBSET ChunkPool : Cardinality(s) <= MaxChunks}}

\* what a region file that has siblings may hold
ContentsShared ==
    {ZeroLengthFile, ShortFile}
        \cup {RegionFile({d}) : d \in {c \in ChunkPool : c.slot \in {3, 5, 42}}}

-----------------------------------------------------------------------------
(* State *)

VARIABLES
    fs,                        \* "in"/"out" region directory -> name -> file
    equal_input_output,        \* both paths name the same directory
    inhabited_time_threshold,
    run,                       \* which invocation of the program this is
    run_state,                 \* "running", "ok" (returned) or "panicked"
    snapshot,                  \* fs as the current invocation found it
    pc,                        \* per directory entry: where its closure stands
    chunk_data,                \* per entry: the surviving (loc, type, data)
    entry_idx,                 \* per entry: entries of chunk_data written so far
    offset,                    \* per entry: the running offset of the repack
    out_pos,                   \* per entry: the cursor of output_file
    written_at                 \* per entry: the offsets sought to write a chunk

vars == <<fs, equal_input_output, inhabited_time_threshold, run, run_state,
          snapshot, pc, chunk_data, entry_idx, offset, out_pos, written_at>>

Terminal == {"ignored", "empty", "header_missing", "pruned", "written",
             "panicked", "not_run"}

OutDir == IF equal_input_output THEN "in" ELSE "out"

\* std::fs::read_dir(input_directory): one closure per entry
Listing(dir) == [n \in AllNames |-> IF dir[n].exists THEN "pending" ELSE "absent"]

Init ==
    /\ \E names \in {s \in SUBSET AllNames : Cardinality(s) \in 1..MaxFiles} :
       \E a \in (IF RegionA \notin names THEN {NoFile}
                 ELSE IF names = {RegionA} THEN ContentsAlone ELSE ContentsShared) :
       \E b \in (IF RegionB \in names THEN ContentsShared ELSE {NoFile}) :
          fs = [d \in {"in", "out"} |->
                   [n \in AllNames |->
                       IF d = "out" \/ n \notin names THEN NoFile
                       ELSE IF n = RegionA THEN a
                       ELSE IF n = RegionB THEN b
                       ELSE OtherFile]]
    /\ equal_input_output \in BOOLEAN
    /\ inhabited_time_threshold \in Thresholds
    /\ run = 1
    /\ run_state = "running"
    /\ snapshot = fs
    /\ pc = Listing(fs["in"])
    /\ chunk_data = [n \in AllNames |-> <<>>]
    /\ entry_idx = [n \in AllNames |-> 0]
    /\ offset = [n \in AllNames |-> 0]
    /\ out_pos = [n \in AllNames |-> 0]
    /\ written_at = [n \in AllNames |-> <<>>]

\* lines 85-192: filter the name, open and classify the file, scan it
OpenAndScan(n) ==
    /\ run_state = "running"
    /\ pc[n] = "pending"
    /\ LET kind == ClassifyName(n)
           file == fs["in"][n]
           scan == Scan(file, inhabited_time_threshold)
           to == IF kind = "skip" THEN "ignored"
                 ELSE IF kind = "panic" THEN "panicked"
                 ELSE IF file.len = 0 THEN "empty"
                 ELSE IF file.len < 2 * SECTOR_SIZE THEN "header_missing"
                 ELSE IF scan.panicked THEN "panicked"
                 ELSE "scanned"
       IN  /\ pc' = [pc EXCEPT ![n] = to]
           /\ fs' = IF to = "empty" /\ equal_input_output
                    THEN [fs EXCEPT !["in"][n] = NoFile]
                    ELSE fs
           /\ chunk_data' = [chunk_data EXCEPT
                                ![n] = IF to = "scanned" THEN scan.chunk_data ELSE <<>>]
    /\ UNCHANGED <<equal_input_output, inhabited_time_threshold, run, run_state,
                   snapshot, entry_idx, offset, out_pos, written_at>>

\* lines 194-202: nothing left to write, or create the output file
CreateOutput(n) ==
    /\ run_state = "running"
    /\ pc[n] = "scanned"
    /\ IF chunk_data[n] = <<>>
       THEN /\ pc' = [pc EXCEPT ![n] = "pruned"]
            /\ UNCHANGED <<fs, offset>>
       ELSE /\ pc' = [pc EXCEPT ![n] = "repack"]
            /\ fs' = [fs EXCEPT ![OutDir][n] = CreateFile]
            /\ offset' = [offset EXCEPT ![n] = FirstOffset]
    /\ UNCHANGED <<equal_input_output, inhabited_time_threshold, run, run_state,
                   snapshot, chunk_data, entry_idx, out_pos, written_at>>

\* lines 203-215: one iteration of the loop over chunk_data
RepackEntry(n) ==
    /\ run_state = "running"
    /\ pc[n] = "repack"
    /\ entry_idx[n] < Len(chunk_data[n])
    /\ LET entry == chunk_data[n][entry_idx[n] + 1]
           data == entry[3]
       IN  /\ fs' = [fs EXCEPT ![OutDir][n] = WriteEntry(@, offset[n], entry)]
           /\ written_at' = [written_at EXCEPT ![n] = Append(@, offset[n])]
           /\ out_pos' = [out_pos EXCEPT ![n] = offset[n] + 4 + 1 + data.len]
           /\ offset' = [offset EXCEPT ![n] = AdvanceOffset(@, NumSectors(data))]
    /\ entry_idx' = [entry_idx EXCEPT ![n] = @ + 1]
    /\ UNCHANGED <<equal_input_output, inhabited_time_threshold, run, run_state,
                   snapshot, pc, chunk_data>>

\* line 217: output_file.set_len(offset)
SetLen(n) ==
    /\ run_state = "running"
    /\ pc[n] = "repack"
    /\ entry_idx[n] = Len(chunk_data[n])
    /\ fs' = [fs EXCEPT ![OutDir][n] = SetLenFile(@, offset[n])]
    /\ pc' = [pc EXCEPT ![n] = "written"]
    /\ UNCHANGED <<equal_input_output, inhabited_time_threshold, run, run_state,
                   snapshot, chunk_data, entry_idx, offset, out_pos, written_at>>

\* A panic in one closure unwinds the parallel for_each: entries whose closure
\* has not started may never be started.
Unwind(n) ==
    /\ run_state = "running"
    /\ pc[n] = "pending"
    /\ \E m \in AllNames : pc[m] = "panicked"
    /\ pc' = [pc EXCEPT ![n] = "not_run"]
    /\ UNCHANGED <<fs, equal_input_output, inhabited_time_threshold, run, run_state,
                   snapshot, chunk_data, entry_idx, offset, out_pos, written_at>>

\* for_each returns once every closure is through; a panic of a closure is
\* resumed in the caller, otherwise optimise_region_files returns Ok(())
Join ==
    /\ run_state = "running"
    /\ \A n \in AllNames : pc[n] \in Terminal \cup {"absent"}
    /\ run_state' = IF \E n \in AllNames : pc[n] = "panicked" THEN "panicked" ELSE "ok"
    /\ UNCHANGED <<fs, equal_input_output, inhabited_time_threshold, run, snapshot,
                   pc, chunk_data, entry_idx, offset, out_pos, written_at>>

\* the program is run a second time, in place, on what the first run left
RunAgain ==
    /\ run_state = "ok"
    /\ equal_input_output
    /\ run < 2
    /\ run' = run + 1
    /\ run_state' = "running"
    /\ snapshot' = fs
    /\ pc' = Listing(fs["in"])
    /\ chunk_data' = [n \in AllNames |-> <<>>]
    /\ entry_idx' = [n \in AllNames |-> 0]
    /\ offset' = [n \in AllNames |-> 0]
    /\ out_pos' = [n \in AllNames |-> 0]
    /\ written_at' = [n \in AllNames |-> <<>>]
    /\ UNCHANGED <<fs, equal_input_output, inhabited_time_threshold>>

Next ==
    \/ \E n \in AllNames : OpenAndScan(n)
    \/ \E n \in AllNames : CreateOutput(n)
    \/ \E n \in AllNames : RepackEntry(n)
    \/ \E n \in AllNames : SetLen(n)
    \/ \E n \in AllNames : Unwind(n)
    \/ Join
    \/ RunAgain

Spec == Init /\ [][Next]_vars

-----------------------------------------------------------------------------
(* Reading a region file by its format, for the statements below *)

Slots == 0..1023

StoredLoc(file, index) == LocAt(ReadExact(file, 0, 4096), index)

OccupiedSlots(file) ==
    {i \in {p \div 4 : p \in {q \in DOMAIN file.bytes : q < 4096}} : StoredLoc(file, i) # 0}

StoredPos(file, index) == (StoredLoc(file, index) \div 256) * 4096

StoredSize(file, index) == FromBeBytesI32(ReadExact(file, StoredPos(file, index), 4))

\* the length, the tag and the whole body lie inside the file
Readable(file, index) ==
    /\ StoredLoc(file, index) > 0
    /\ StoredPos(file, index) + 5 <= file.len
    /\ StoredSize(file, index) >= 1
    /\ StoredPos(file, index) + 4 + StoredSize(file, index) <= file.len

StoredTag(file, index) == ByteAt(file, StoredPos(file, index) + 4)

StoredData(file, index) ==
    ReadExact(file, StoredPos(file, index) + 5, StoredSize(file, index) - 1)

Decodes(file, index) ==
    /\ Readable(file, index)
    /\ StoredTag(file, index) \in {1, 2}
    /\ Decompress(StoredTag(file, index), StoredData(file, index)).ok

HasAge(file, index) ==
    /\ Decodes(file, index)
    /\ NbtLong(Decompress(StoredTag(file, index), StoredData(file, index)).bytes).ok

StoredAge(file, index) ==
    NbtLong(Decompress(StoredTag(file, index), StoredData(file, index)).bytes).value

\* the slot of the input table an entry of chunk_data was read from
SlotOfLoc(file, loc) == CHOOSE i \in OccupiedSlots(file) : StoredLoc(file, i) = loc

EntrySlot(n, k) == SlotOfLoc(snapshot["in"][n], chunk_data[n][k][1])

\* where the x/z loops come to a slot: x = index % 32 outer, z = index / 32 inner
VisitRank(index) == (index % 32) * 32 + index \div 32

Listed(n) == snapshot["in"][n].exists

\* r.<i32>.<i32>.mca
WellFormedName(n) ==
    /\ Len(n) = 4
    /\ n[4] = "mca"
    /\ n[2] \in {"0", "1", "2", "3", "-1"}
    /\ n[3] \in {"0", "1", "2", "3", "-1"}

\* at least one occupied slot, and every one of them has an age <= threshold
FullyPruned(file, threshold) ==
    /\ file.len >= 8192
    /\ OccupiedSlots(file) # {}
    /\ \A i \in OccupiedSlots(file) : HasAge(file, i) /\ StoredAge(file, i) <= threshold

\* a header shorter than two tables, or a decoded payload without the age
FatalCondition(file) ==
    \/ file.len > 0 /\ file.len < 8192
    \/ /\ file.len >= 8192
       /\ \A i \in OccupiedSlots(file) : Readable(file, i)
       /\ \E i \in OccupiedSlots(file) : Decodes(file, i) /\ ~HasAge(file, i)

-----------------------------------------------------------------------------
(* C1 *)

\* C1 (as claimed): in a written output file the slot of every surviving
\* entry holds that entry's new location (the sector it was written at), and
\* every other slot of the location table reads zero.
C1_LocationAtOriginalSlot ==
    \A n \in AllNames : pc[n] = "written" =>
        LET out == fs[OutDir][n]
            kept == {EntrySlot(n, k) : k \in 1..Len(chunk_data[n])}
        IN  /\ \A k \in 1..Len(chunk_data[n]) :
                  StoredLoc(out, EntrySlot(n, k)) \div 256 = written_at[n][k] \div 4096
            /\ \A i \in Slots \ kept : StoredLoc(out, i) = 0

(* C2 *)

\* C2 (as claimed): reading a written output file through its own location
\* table yields exactly the surviving entries: as many occupied slots as
\* entries, each readable, with the tags and bodies of chunk_data.
C2_RoundTrip ==
    \A n \in AllNames : pc[n] = "written" =>
        LET out == fs[OutDir][n]
        IN  /\ Cardinality(OccupiedSlots(out)) = Len(chunk_data[n])
            /\ \A i \in OccupiedSlots(out) : Readable(out, i)
            /\ {<<StoredTag(out, i), StoredData(out, i)>> : i \in OccupiedSlots(out)}
                   = {<<chunk_data[n][k][2], chunk_data[n][k][3]>> :
                          k \in 1..Len(chunk_data[n])}

(* C3 *)

\* C3 (as claimed): a second run in place, on the output of the first and
\* with the same threshold, returns and leaves every file as the first run
\* left it.
C3_Idempotent ==
    (run = 2 /\ run_state # "running") => (run_state = "ok" /\ fs = snapshot)

(* C4 *)

C5_SectorAlignment ==
    \A n \in AllNames :
        /\ \A k \in 1..Len(written_at[n]) :
              written_at[n][k] % 4096 = 0 /\ written_at[n][k] >= 8192
        /\ pc[n] = "repack" => (offset[n] % 4096 = 0 /\ offset[n] >= 8192)
        /\ pc[n] = "written" =>
              (fs[OutDir][n].len % 4096 = 0 /\ fs[OutDir][n].len = offset[n])

\* a written file of three chunks, one of them of two sectors
C5_Witness ==
    \E n \in AllNames :
        /\ pc[n] = "written"
        /\ Len(written_at[n]) = 3
        /\ fs[OutDir][n].len = 8192 + 4 * 4096

(* C6 *)

\* C6 (as claimed): after a run that returned, no region file that was of
\* length 0 or fully pruned has a file in the output directory, and into a
\* distinct output directory its input file is as it was.
C6_NoFileForEmptyOrPruned ==
    run_state = "ok" =>
        \A n \in AllNames :
            (/\ Listed(n)
             /\ WellFormedName(n)
             /\ \/ snapshot["in"][n].len = 0
                \/ FullyPruned(snapshot["in"][n], inhabited_time_threshold))
            => /\ ~fs[OutDir][n].exists
               /\ ~equal_input_output => fs["in"][n] = snapshot["in"][n]

(* C7 *)

\* C7 (as claimed): when the first run is over and a region file met a fatal
\* condition (no other entry being malformed), that file is untouched and has
\* no output, every other entry's closure has run, and the run returned.
C7_FaultIsolation ==
    (/\ run = 1
     /\ run_state # "running"
     /\ \A n \in AllNames : Listed(n) => (WellFormedName(n) \/ ClassifyName(n) = "skip"))
    => \A n \in AllNames :
          (Listed(n) /\ WellFormedName(n) /\ FatalCondition(snapshot["in"][n]))
          => /\ fs["in"][n] = snapshot["in"][n]
             /\ ~fs["out"][n].exists
             /\ \A m \in AllNames : pc[m] # "not_run"
             /\ run_state = "ok"

(* C8 *)

\* C8 (as claimed): a listed entry whose name is not r.<i32>.<i32>.mca is
\* ignored: its closure returns without opening it, the file stays as it was
\* and nothing is written for it.
C8_MalformedNamesIgnored ==
    \A n \in AllNames :
        (Listed(n) /\ ~WellFormedName(n) /\ pc[n] # "pending")
        => /\ pc[n] = "ignored"
           /\ fs["in"][n] = snapshot["in"][n]
           /\ ~fs["out"][n].exists

(* C9 *)

\* C9 (as claimed): of two surviving slots i < j, the chunk of slot i is
\* written at an offset no greater than that of slot j.
C9_SlotIndexOrder ==
    \A n \in AllNames : pc[n] \in {"repack", "written"} =>
        \A k, l \in 1..Len(written_at[n]) :
            EntrySlot(n, k) < EntrySlot(n, l) => written_at[n][k] <= written_at[n][l]

\* C9 (amended): chunks are written in the order the x/z loops visit their
\* slots (x = index % 32 first, then z = index / 32): of two surviving slots,
\* the one visited first is written at an offset no greater than the other's.
C9_VisitOrder ==
    \A n \in AllNames : pc[n] \in {"repack", "written"} =>
        \A k, l \in 1..Len(written_at[n]) :
            VisitRank(EntrySlot(n, k)) < VisitRank(EntrySlot(n, l))
                => written_at[n][k] <= written_at[n][l]

\* slots 5 (x=5, z=0) and 32 (x=0, z=1) both written: 32 first, then 5
C9_Witness ==
    \E n \in AllNames :
        /\ pc[n] = "written"
        /\ \E k, l \in 1..Len(written_at[n]) :
              /\ EntrySlot(n, k) = 32
              /\ EntrySlot(n, l) = 5
              /\ written_at[n][k] < written_at[n][l]

(* C10 *)

\* C10 (as claimed): the 5 + body.len() bytes of every chunk end at or before
\* the next chunk's offset, and the last chunk's bytes end within the final
\* length of the file.
C10_PayloadFitsItsSectors ==
    \A n \in AllNames :
        /\ pc[n] = "repack" => out_pos[n] <= offset[n]
        /\ pc[n] = "written" => out_pos[n] <= fs[OutDir][n].len

====
